---- MODULE Spec2Model ----
(***************************************************************************)
(* NearEarthObjects: the indexed store (database.py), the filter           *)
(* predicates and the filter factory (filters.py), and the query           *)
(* generator with its result limit.                                        *)
(*                                                                         *)
(* Objects and approaches are identified by their position in the input    *)
(* collections (Python object identity); an object reference is such a     *)
(* position, NoneRef standing for Python's None.  Strings that are         *)
(* compared for order (designations) are sequences of character codes      *)
(* compared lexicographically, as Python compares str.  Optional values    *)
(* are None (the empty tuple) or Some(v).  Floats are small integers, the  *)
(* not-a-number float being the distinguished value NaN.                   *)
(***************************************************************************)
EXTENDS Integers, Sequences, FiniteSets, TLC

VARIABLES
    neos,                  \* constructor argument: sequence of NearEarthObject
    approaches,            \* constructor argument: sequence of CloseApproach
    pc,                    \* "new" | "built" | "raised" (constructor position)
    _neos,                 \* self._neos: object references sorted by designation
    _neos_named,           \* self._neos_named: name -> object reference
    neo_designations,      \* self.neo_designations
    neo_designations_len,  \* self.neo_designations_len
    _approach_des_dict,    \* self._approach_des_dict: designation -> approach refs
    neo_approaches,        \* NearEarthObject.approaches, per object reference
    approach_neo,          \* CloseApproach.neo, per approach reference
    call,                  \* the last call made on the store, with its arguments
    ret,                   \* what that call returned
    gen,                   \* the live limit(query(filters), n) generator
    prev,                  \* the last query run consumed to exhaustion
    args,                  \* keyword arguments handed to create_filters
    filters                \* what create_filters returned

storeVars == <<_neos, _neos_named, neo_designations, neo_designations_len,
               _approach_des_dict, neo_approaches, approach_neo>>
inputVars == <<neos, approaches>>
vars == <<neos, approaches, pc, _neos, _neos_named, neo_designations,
          neo_designations_len, _approach_des_dict, neo_approaches,
          approach_neo, call, ret, gen, prev, args, filters>>

----------------------------------------------------------------------------
(* Bounds of the model. *)
MaxNeos == 2
MaxApproaches == 2

(* Python values. *)
None == <<>>
Some(v) == <<v>>
NoneRef == 0
NaN == -1
True == 1
False == 0

SeqsUpTo(S, n) == UNION {[1..k -> S] : k \in 0..n}

(* str comparison: lexicographic on character codes, a proper prefix first. *)
RECURSIVE StrLess(_, _)
StrLess(a, b) ==
    IF b = <<>> THEN FALSE
    ELSE IF a = <<>> THEN TRUE
    ELSE IF a[1] < b[1] THEN TRUE
    ELSE IF a[1] > b[1] THEN FALSE
    ELSE StrLess(Tail(a), Tail(b))

StrGreater(a, b) == StrLess(b, a)

(* The designations "1", "10" and "2": their str order differs from the   *)
(* numeric one.  "0" and "3" lie outside, "11" lies inside their range.   *)
Designations == {<<1>>, <<1, 0>>, <<2>>}
ProbeDesignations == Designations \cup {<<0>>, <<1, 1>>, <<3>>}

----------------------------------------------------------------------------
(* database.py: binarySearch, on a 0-based Python list. *)
RECURSIVE binarySearch(_, _, _, _)
binarySearch(arr, left, right, search) ==
    IF right >= left
    THEN LET mid == left + ((right - left) \div 2)
         IN  IF arr[mid + 1] = search THEN mid
             ELSE IF StrGreater(arr[mid + 1], search)
                  THEN binarySearch(arr, left, mid - 1, search)
                  ELSE binarySearch(arr, mid + 1, right, search)
    ELSE -1

(* Python list indexing: a negative index counts from the end, an index   *)
(* outside [-len, len) raises IndexError.                                 *)
PyIndexOK(list, i) == i >= -Len(list) /\ i < Len(list)
PyIndex(list, i) == IF i >= 0 THEN list[i + 1] ELSE list[Len(list) + i + 1]

(* The constructor without its sort: self._neos in input order. *)
SortByDesignation_unsorted(objs) == [i \in 1..Len(objs) |-> i]

(* list.sort(key=designation): stable, ascending. *)
RECURSIVE InsertByDesignation(_, _, _)
InsertByDesignation(objs, sorted, o) ==
    IF sorted = <<>> THEN <<o>>
    ELSE IF StrLess(objs[o].designation, objs[Head(sorted)].designation)
         THEN <<o>> \o sorted
         ELSE <<Head(sorted)>> \o InsertByDesignation(objs, Tail(sorted), o)

RECURSIVE SortUpTo(_, _)
SortUpTo(objs, k) ==
    IF k = 0 THEN <<>>
    ELSE InsertByDesignation(objs, SortUpTo(objs, k - 1), k)

SortByDesignation(objs) == SortUpTo(objs, Len(objs))

(* The _neos_named loop run over the sorted list self._neos. *)
NamedOrder_sorted(objs, sortedRefs) == sortedRefs

(* The loop that fills _neos_named, over the constructor argument. *)
NamedOrder(objs, sortedRefs) == [i \in 1..Len(objs) |-> i]

RECURSIVE BuildNamed(_, _, _)
BuildNamed(objs, order, k) ==
    IF k = 0 THEN <<>>
    ELSE LET m == BuildNamed(objs, order, k - 1)
             o == order[k]
             name == objs[o].name
         IN  IF name # None /\ name # Some("")
             THEN (name[1] :> o) @@ [x \in (DOMAIN m) \ {name[1]} |-> m[x]]
             ELSE m

(* neo_designations filled from the constructor argument instead of the  *)
(* sorted list.                                                           *)
DesignationsOf_unsorted(objs, sortedRefs) ==
    [i \in 1..Len(objs) |-> objs[i].designation]

(* The loop that fills neo_designations. *)
DesignationsOf(objs, sortedRefs) ==
    [i \in 1..Len(sortedRefs) |-> objs[sortedRefs[i]].designation]

(* The approach loop.  st is the part of the state the loop writes. *)
DictAppend(d, key, a) ==
    IF key \in DOMAIN d
    THEN [d EXCEPT ![key] = Append(@, a)]
    ELSE (key :> <<a>>) @@ d

RECURSIVE LinkFrom(_, _, _, _, _, _)
LinkFrom(apps, sortedRefs, des, deslen, k, st) ==
    IF k > Len(apps) THEN st
    ELSE LET d == apps[k].designation
             dict == DictAppend(st.dict, d, k)
             neoIndex == binarySearch(des, 0, deslen, d)
         IN  IF ~PyIndexOK(sortedRefs, neoIndex)
             THEN [st EXCEPT !.dict = dict, !.raised = TRUE]
             ELSE LET o == PyIndex(sortedRefs, neoIndex)
                  IN  LinkFrom(apps, sortedRefs, des, deslen, k + 1,
                               [st EXCEPT !.dict = dict,
                                          !.neo[k] = o,
                                          !.lists[o] = Append(@, k)])

----------------------------------------------------------------------------
(* State before the constructor runs: the loader has made the records,    *)
(* every object's approaches list is empty and every approach's neo is    *)
(* None.                                                                  *)
NoGen == [state |-> "none"]
NoRun == [state |-> "none"]
NoCall == [op |-> "none"]

Unbuilt(ns, as) ==
    /\ neos = ns
    /\ approaches = as
    /\ pc = "new"
    /\ _neos = <<>>
    /\ _neos_named = <<>>
    /\ neo_designations = <<>>
    /\ neo_designations_len = 0
    /\ _approach_des_dict = <<>>
    /\ neo_approaches = [o \in 1..Len(ns) |-> <<>>]
    /\ approach_neo = [a \in 1..Len(as) |-> NoneRef]
    /\ call = NoCall
    /\ ret = NoneRef
    /\ gen = NoGen
    /\ prev = NoRun
    /\ filters = <<>>

(* Inputs of the store specification: every combination of designation    *)
(* and name, designations possibly repeated.                               *)
StoreNames == {None, Some(""), Some("Eros")}
StoreNeos ==
    [designation : Designations, name : StoreNames,
     diameter : {NaN}, hazardous : {False}]
StoreApproaches ==
    [designation : Designations, time : {<<1, 0>>},
     distance : {1}, velocity : {1}]

NoArgs == <<>>

Init ==
    /\ \E ns \in SeqsUpTo(StoreNeos, MaxNeos) :
       \E as \in SeqsUpTo(StoreApproaches, MaxApproaches) :
           Unbuilt(ns, as)
    /\ args = NoArgs

(* NEODatabase.__init__ *)
Construct ==
    /\ pc = "new"
    /\ LET sortedRefs == SortByDesignation(neos)
           des == DesignationsOf(neos, sortedRefs)
           deslen == Len(des) - 1
           st == LinkFrom(approaches, sortedRefs, des, deslen, 1,
                          [dict |-> <<>>, neo |-> approach_neo,
                           lists |-> neo_approaches, raised |-> FALSE])
       IN  /\ _neos' = sortedRefs
           /\ _neos_named' =
                  BuildNamed(neos, NamedOrder(neos, sortedRefs), Len(neos))
           /\ neo_designations' = des
           /\ neo_designations_len' = deslen
           /\ _approach_des_dict' = st.dict
           /\ approach_neo' = st.neo
           /\ neo_approaches' = st.lists
           /\ pc' = IF st.raised THEN "raised" ELSE "built"
    /\ call' = [op |-> "__init__"]
    /\ ret' = NoneRef
    /\ UNCHANGED <<neos, approaches, gen, prev, args, filters>>

(* get_neo_by_designation testing the index with "> 0". *)
get_neo_by_designation_positive(designation) ==
    LET neoIndex == binarySearch(neo_designations, 0, neo_designations_len,
                                 designation)
    IN  IF neoIndex > 0 THEN _neos[neoIndex + 1] ELSE NoneRef

(* NEODatabase.get_neo_by_designation *)
get_neo_by_designation(designation) ==
    LET neoIndex == binarySearch(neo_designations, 0, neo_designations_len,
                                 designation)
    IN  IF neoIndex # -1 THEN _neos[neoIndex + 1] ELSE NoneRef

GetNeoByDesignation ==
    /\ pc = "built"
    /\ \E d \in ProbeDesignations :
           /\ call' = [op |-> "get_neo_by_designation", arg |-> d]
           /\ ret' = get_neo_by_designation(d)
    /\ UNCHANGED <<storeVars, inputVars, pc, gen, prev, args, filters>>

(* get_neo_by_name without its guard on None and the empty string. *)
get_neo_by_name_noGuard(name) ==
    IF name # None /\ name[1] \in DOMAIN _neos_named
    THEN [value |-> _neos_named[name[1]], consulted |-> TRUE]
    ELSE [value |-> NoneRef, consulted |-> TRUE]

(* NEODatabase.get_neo_by_name: the result and whether the dict was read. *)
get_neo_by_name(name) ==
    IF name = None \/ name = Some("")
    THEN [value |-> NoneRef, consulted |-> FALSE]
    ELSE IF name[1] \in DOMAIN _neos_named
         THEN [value |-> _neos_named[name[1]], consulted |-> TRUE]
         ELSE [value |-> NoneRef, consulted |-> TRUE]

(* A name lookup that stores a miss in the dict, as a defaultdict does. *)
GetNeoByName_inserts ==
    /\ pc = "built"
    /\ \E name \in {Some("Eros"), Some("Apophis")} :
           LET r == get_neo_by_name(name)
           IN  /\ call' = [op |-> "get_neo_by_name", arg |-> name,
                           consulted |-> r.consulted]
               /\ ret' = r.value
               /\ _neos_named' =
                      IF name[1] \in DOMAIN _neos_named THEN _neos_named
                      ELSE (name[1] :> NoneRef) @@ _neos_named
    /\ UNCHANGED <<_neos, neo_designations, neo_designations_len,
                   _approach_des_dict, neo_approaches, approach_neo,
                   inputVars, pc, gen, prev, args, filters>>

ProbeNames == StoreNames \cup {Some("Apophis")}

GetNeoByName ==
    /\ pc = "built"
    /\ \E name \in ProbeNames :
           LET r == get_neo_by_name(name)
           IN  /\ call' = [op |-> "get_neo_by_name", arg |-> name,
                           consulted |-> r.consulted]
               /\ ret' = r.value
    /\ UNCHANGED <<storeVars, inputVars, pc, gen, prev, args, filters>>

----------------------------------------------------------------------------
(* filters.py.  A filter is [kind, op, value]; kind names the subclass,   *)
(* whose get() picks the attribute.                                       *)
get(kind, a) ==
    CASE kind = "Distance" -> approaches[a].distance
      [] kind = "Date"     -> approaches[a].time[1]
      [] kind = "Velocity" -> approaches[a].velocity
      [] kind = "Diameter" -> neos[approach_neo[a]].diameter
      [] kind = "Hazard"   -> neos[approach_neo[a]].hazardous

(* The comparison of an unknown diameter kept as an ordinary number. *)
Compare_sentinel(op, x, v) ==
    CASE op = "eq" -> x = v
      [] op = "le" -> x <= v
      [] op = "ge" -> x >= v

(* operator.eq / operator.le / operator.ge on floats: every comparison    *)
(* with the not-a-number float is false.                                  *)
Compare(op, x, v) ==
    IF x = NaN \/ v = NaN THEN FALSE
    ELSE CASE op = "eq" -> x = v
           [] op = "le" -> x <= v
           [] op = "ge" -> x >= v

(* AttributeFilter.__call__ *)
FilterCall(f, a) == Compare(f.op, get(f.kind, a), f.value)

Filter(kind, op, value) == [kind |-> kind, op |-> op, value |-> value]

(* A criterion tested with "is not None" instead of its truthiness. *)
Truthy_notNone(x) == x # None

(* Truthiness of an optional number: None and zero are falsy. *)
Truthy(x) == x # None /\ x[1] # 0

(* DistanceFilter.validateDist: float(val), which keeps a number's value. *)
validateDist(val) == val

AppendIf(list, cond, f) == IF cond THEN Append(list, f) ELSE list

(* create_filters *)
create_filters(kw) ==
    LET f1 == AppendIf(<<>>, Truthy(kw.distance_min),
                  Filter("Distance", "ge", validateDist(kw.distance_min[1])))
        f2 == AppendIf(f1, Truthy(kw.distance_max),
                  Filter("Distance", "le", validateDist(kw.distance_max[1])))
        f3 == AppendIf(f2, kw.date # None,
                  Filter("Date", "eq", kw.date[1]))
        f4 == AppendIf(f3, kw.start_date # None,
                  Filter("Date", "ge", kw.start_date[1]))
        f5 == AppendIf(f4, kw.end_date # None,
                  Filter("Date", "le", kw.end_date[1]))
        f6 == AppendIf(f5, Truthy(kw.velocity_min),
                  Filter("Velocity", "ge", kw.velocity_min[1]))
        f7 == AppendIf(f6, Truthy(kw.velocity_max),
                  Filter("Velocity", "le", kw.velocity_max[1]))
        f8 == AppendIf(f7, Truthy(kw.diameter_min),
                  Filter("Diameter", "ge", kw.diameter_min[1]))
        f9 == AppendIf(f8, Truthy(kw.diameter_max),
                  Filter("Diameter", "le", kw.diameter_max[1]))
    IN  AppendIf(f9, kw.hazardous # None,
                  Filter("Hazard", "eq", kw.hazardous[1]))

CreateFilters ==
    /\ call = NoCall
    /\ args # NoArgs
    /\ filters' = create_filters(args)
    /\ call' = [op |-> "create_filters"]
    /\ UNCHANGED <<storeVars, inputVars, pc, ret, gen, prev, args>>

----------------------------------------------------------------------------
(* The filter loop without its break: every filter is called. *)
EvalFilters_noBreak(fs, a, i, log) ==
    [passed |-> \A j \in DOMAIN fs : FilterCall(fs[j], a),
     log |-> log \o [j \in 1..Len(fs) |-> <<a, j>>]]

(* The filter loop without its break, the flag taking each result. *)
EvalFilters_lastWins(fs, a, i, log) ==
    [passed |-> fs = <<>> \/ FilterCall(fs[Len(fs)], a),
     log |-> log \o [j \in 1..Len(fs) |-> <<a, j>>]]

(* NEODatabase.query, a generator: the filters of one approach, in order, *)
(* up to the first that fails.  log records every filter call made.       *)
RECURSIVE EvalFilters(_, _, _, _)
EvalFilters(fs, a, i, log) ==
    IF i > Len(fs) THEN [passed |-> TRUE, log |-> log]
    ELSE IF ~FilterCall(fs[i], a)
         THEN [passed |-> FALSE, log |-> Append(log, <<a, i>>)]
         ELSE EvalFilters(fs, a, i + 1, Append(log, <<a, i>>))

(* Resuming the generator after approach pos, up to its next yield or to  *)
(* the end of self._approaches.                                           *)
RECURSIVE query(_, _, _)
query(fs, pos, log) ==
    IF pos >= Len(approaches)
    THEN [yielded |-> FALSE, pos |-> pos, log |-> log]
    ELSE LET r == EvalFilters(fs, pos + 1, 1, log)
         IN  IF r.passed
             THEN [yielded |-> TRUE, pos |-> pos + 1, log |-> r.log]
             ELSE query(fs, pos + 1, r.log)

(* limit written as a loop that takes an item and then tests the count. *)
limit_pullsFirst(g) ==
    LET n == IF g.n = Some(0) THEN None ELSE g.n
        r == query(g.filters, g.pos, g.log)
    IN  IF r.yielded /\ (n = None \/ g.taken < n[1])
        THEN [g EXCEPT !.state = "live", !.n = n, !.pos = r.pos,
                       !.log = r.log, !.taken = @ + 1,
                       !.out = Append(@, r.pos)]
        ELSE [g EXCEPT !.state = "done", !.n = n, !.pos = r.pos,
                       !.log = r.log]

(* limit: islice(iterator, 0, n) after n == 0 became None.  One next()    *)
(* on it: after n items it stops without asking the iterator again.       *)
limit(g) ==
    LET n == IF g.n = Some(0) THEN None ELSE g.n
    IN  IF n # None /\ g.taken >= n[1]
        THEN [g EXCEPT !.state = "done", !.n = n]
        ELSE LET r == query(g.filters, g.pos, g.log)
             IN  IF r.yielded
                 THEN [g EXCEPT !.state = "live", !.n = n, !.pos = r.pos,
                                !.log = r.log, !.taken = @ + 1,
                                !.out = Append(@, r.pos)]
                 ELSE [g EXCEPT !.state = "done", !.n = n, !.pos = r.pos,
                                !.log = r.log]

(* A query over an iterator shared by all calls: it goes on where the    *)
(* last one stopped.                                                      *)
NewGen_resumes(fs, n) ==
    [state |-> "new", filters |-> fs, n |-> n,
     pos |-> IF gen.state = "none" THEN 0 ELSE gen.pos, taken |-> 0,
     log |-> <<>>, out |-> <<>>]

(* Calling limit(db.query(filters), n) makes a generator; nothing runs.   *)
NewGen(fs, n) ==
    [state |-> "new", filters |-> fs, n |-> n, pos |-> 0, taken |-> 0,
     log |-> <<>>, out |-> <<>>]

Unlimited(g) == g.n = None \/ g.n = Some(0)

(* The earlier run of the query that is started now: the run the caller  *)
(* drops for the new one when that was an unlimited run consumed to       *)
(* exhaustion, else the run remembered before it; none when the new       *)
(* query has other filters.                                               *)
Remember(g, fs) ==
    LET r == IF g.state = "done" /\ Unlimited(g)
             THEN [state |-> "done", filters |-> g.filters, out |-> g.out]
             ELSE prev
    IN  IF r.state = "done" /\ r.filters = fs THEN r ELSE NoRun

QueryFilterSets ==
    { <<>>,
      <<Filter("Distance", "ge", 2), Filter("Hazard", "eq", True)>>,
      <<Filter("Distance", "le", 1)>>,
      <<Filter("Diameter", "ge", 1), Filter("Velocity", "ge", 2)>>,
      <<Filter("Date", "eq", 1), Filter("Diameter", "le", 1)>> }

MaxLimit == 1
Limits == {None} \cup {Some(k) : k \in 0..MaxLimit}

StartQuery ==
    /\ pc = "built"
    /\ \E fs \in QueryFilterSets : \E n \in Limits :
           /\ gen' = NewGen(fs, n)
           /\ prev' = Remember(gen, fs)
    /\ call' = [op |-> "query"]
    /\ ret' = NoneRef
    /\ UNCHANGED <<storeVars, inputVars, pc, args, filters>>

(* next() on the generator: an approach, or StopIteration. *)
NextItem ==
    /\ pc = "built"
    /\ gen.state \in {"new", "live"}
    /\ gen' = limit(gen)
    /\ call' = [op |-> "next", stop |-> gen'.state = "done"]
    /\ ret' = IF gen'.state = "done" THEN NoneRef
              ELSE gen'.out[Len(gen'.out)]
    /\ UNCHANGED <<storeVars, inputVars, pc, prev, args, filters>>

----------------------------------------------------------------------------
Next == Construct \/ GetNeoByDesignation \/ GetNeoByName

Spec == Init /\ [][Next]_vars

(* Inputs of the query specification: objects of distinct designations   *)
(* that differ in diameter and hazard flag, approaches that differ in     *)
(* date, distance and velocity.                                           *)
QueryNeos ==
    { [designation |-> <<1>>, name |-> Some("Eros"),
       diameter |-> 2, hazardous |-> False],
      [designation |-> <<1, 0>>, name |-> Some("Apophis"),
       diameter |-> 1, hazardous |-> True],
      [designation |-> <<2>>, name |-> None,
       diameter |-> NaN, hazardous |-> True] }
QueryApproaches ==
    { [designation |-> <<1>>, time |-> <<1, 3>>,
       distance |-> 2, velocity |-> 1],
      [designation |-> <<1, 0>>, time |-> <<2, 0>>,
       distance |-> 1, velocity |-> 2],
      [designation |-> <<2>>, time |-> <<1, 0>>,
       distance |-> 2, velocity |-> 2] }

Injective(list) == \A i, j \in DOMAIN list : list[i] = list[j] => i = j

InitQuery ==
    /\ \E ns \in {l \in SeqsUpTo(QueryNeos, MaxNeos) : Injective(l)} :
       \E as \in {l \in SeqsUpTo(QueryApproaches, MaxApproaches) :
                       Injective(l)} :
           Unbuilt(ns, as)
    /\ args = NoArgs

NextQuery ==
    Construct \/ GetNeoByDesignation \/ GetNeoByName \/ StartQuery \/ NextItem

SpecQuery == InitQuery /\ [][NextQuery]_vars

(* Inputs of the factory specification: each criterion absent, zero or    *)
(* set.                                                                   *)
OptNumbers == {None, Some(0), Some(1)}
OptDates == {None, Some(1)}
OptBools == {None, Some(True), Some(False)}
Criteria ==
    [date : OptDates, start_date : OptDates, end_date : OptDates,
     distance_min : OptNumbers, distance_max : OptNumbers,
     velocity_min : OptNumbers, velocity_max : OptNumbers,
     diameter_min : OptNumbers, diameter_max : OptNumbers,
     hazardous : OptBools]

InitFilters ==
    /\ Unbuilt(<<>>, <<>>)
    /\ args \in Criteria

SpecFilters == InitFilters /\ [][CreateFilters]_vars

----------------------------------------------------------------------------
(* Vocabulary of the properties. *)
NeoRefs == 1..Len(neos)
ApproachRefs == 1..Len(approaches)
Count(list, x) == Cardinality({i \in DOMAIN list : list[i] = x})
Matches(a, o) == neos[o].designation = approaches[a].designation
Matched(a) == \E o \in NeoRefs : Matches(a, o)
DistinctDesignations ==
    \A o1, o2 \in NeoRefs :
        neos[o1].designation = neos[o2].designation => o1 = o2
Carriers(name) == {o \in NeoRefs : neos[o].name = name}
Last(S) == CHOOSE o \in S : \A p \in S : p <= o

(* C1: whenever some approach's designation matches no object's          *)
(* designation, construction does not complete.                          *)
C1_ConstructionFailsOnMiss ==
    (\E a \in ApproachRefs : ~Matched(a)) => pc # "built"

(* C2: after construction, every approach whose designation equals the   *)
(* designation of an input object has that object as its neo, and that   *)
(* object's approaches list holds the approach exactly once (and no      *)
(* other object's list holds it).                                        *)
C2_LinkedBothWays ==
    pc = "built" =>
        \A a \in ApproachRefs : \A o \in NeoRefs :
            Matches(a, o) =>
                /\ approach_neo[a] \in NeoRefs
                /\ Matches(a, approach_neo[a])
                /\ Count(neo_approaches[approach_neo[a]], a) = 1
                /\ \A p \in NeoRefs \ {approach_neo[a]} :
                       Count(neo_approaches[p], a) = 0
                /\ DistinctDesignations => approach_neo[a] = o

C2_Witness ==
    /\ pc = "built"
    /\ Len(neos) = 2 /\ Len(approaches) = 2
    /\ StrLess(neos[2].designation, neos[1].designation)
    /\ Matches(1, 1) /\ Matches(2, 1)
    /\ approach_neo[1] = 1 /\ neo_approaches[1] = <<1, 2>>

(* C3: in a store built from objects of pairwise distinct designations,  *)
(* get_neo_by_designation(d) returns the input object whose designation  *)
(* is d when there is one, and None when there is none.                  *)
C3_LookupByDesignation ==
    (pc = "built" /\ call.op = "get_neo_by_designation"
                  /\ DistinctDesignations) =>
        IF \E o \in NeoRefs : neos[o].designation = call.arg
        THEN ret \in NeoRefs /\ neos[ret].designation = call.arg
        ELSE ret = NoneRef

C3_Witness ==
    /\ pc = "built" /\ call.op = "get_neo_by_designation"
    /\ Len(neos) = 2 /\ DistinctDesignations
    /\ StrLess(neos[2].designation, neos[1].designation)
    /\ call.arg = neos[1].designation /\ ret = 1

(* C5: get_neo_by_name returns None for a None name and for the empty    *)
(* string without reading the name lookup, and returns None for a        *)
(* non-empty name that no object carries.                                *)
C5_LookupByNameMisses ==
    (pc = "built" /\ call.op = "get_neo_by_name") =>
        /\ call.arg \in {None, Some("")} =>
               ret = NoneRef /\ ~call.consulted
        /\ (call.arg \notin {None, Some("")} /\ Carriers(call.arg) = {}) =>
               ret = NoneRef

C5_Witness ==
    /\ pc = "built" /\ call.op = "get_neo_by_name"
    /\ call.arg = Some("") /\ Carriers(Some("")) # {}
    /\ Carriers(Some("Eros")) # {}
    /\ ret = NoneRef /\ ~call.consulted

(* C6: the name lookup holds exactly the non-None, non-empty names of    *)
(* the input objects, and get_neo_by_name of such a name returns the     *)
(* object carrying it that comes last in the input order.                *)
C6_NameLookupLastWins ==
    pc = "built" =>
        /\ DOMAIN _neos_named =
               {neos[o].name[1] : o \in {p \in NeoRefs :
                   neos[p].name # None /\ neos[p].name # Some("")}}
        /\ (call.op = "get_neo_by_name"
               /\ call.arg \notin {None, Some("")}
               /\ Carriers(call.arg) # {}) =>
               ret = Last(Carriers(call.arg))

C6_Witness ==
    /\ pc = "built" /\ call.op = "get_neo_by_name"
    /\ Len(neos) = 2 /\ call.arg = Some("Eros")
    /\ Carriers(Some("Eros")) = {1, 2}
    /\ StrLess(neos[2].designation, neos[1].designation)
    /\ ret = 2

(* Vocabulary of the query properties. *)
Passes(fs, a) == \A i \in DOMAIN fs : FilterCall(fs[i], a)
Matching(fs) ==
    SelectSeq([a \in ApproachRefs |-> a], LAMBDA a : Passes(fs, a))
IsPrefix(s, t) == Len(s) <= Len(t) /\ s = SubSeq(t, 1, Len(s))
Running == pc = "built" /\ gen.state \in {"new", "live", "done"}

(* C4: a query consumed to exhaustion has yielded exactly the approaches *)
(* that pass every filter, in store order, each once; with no filters it *)
(* has yielded every approach.  Before that it has yielded a prefix.     *)
C4_QueryYieldsMatches ==
    (Running /\ Unlimited(gen)) =>
        /\ IsPrefix(gen.out, Matching(gen.filters))
        /\ gen.state = "done" =>
               /\ gen.out = Matching(gen.filters)
               /\ gen.filters = <<>> => gen.out = [a \in ApproachRefs |-> a]

C4_Witness ==
    /\ Running /\ Unlimited(gen) /\ gen.state = "done"
    /\ Len(gen.filters) = 2 /\ Len(approaches) = 2
    /\ gen.out = <<2>>

(* C7: with a limit N >= 1 and at least N matching approaches, the       *)
(* generator never goes past the N-th matching approach: no filter is    *)
(* called on a later approach, and the results are the first N matching  *)
(* approaches in store order.                                            *)
C7_LimitStopsAtNthMatch ==
    (Running /\ gen.n # None /\ gen.n[1] >= 1
             /\ Len(Matching(gen.filters)) >= gen.n[1]) =>
        LET m == Matching(gen.filters)
            nth == m[gen.n[1]]
        IN  /\ gen.pos <= nth
            /\ \A i \in DOMAIN gen.log : gen.log[i][1] <= nth
            /\ IsPrefix(gen.out, SubSeq(m, 1, gen.n[1]))
            /\ gen.state = "done" => gen.out = SubSeq(m, 1, gen.n[1])

C7_Witness ==
    /\ Running /\ gen.state = "done" /\ gen.n = Some(1)
    /\ gen.filters # <<>>
    /\ Len(Matching(gen.filters)) = 2
    /\ gen.out = <<1>> /\ gen.pos = 1

(* C8: create_filters returns one filter per supplied criterion and none *)
(* for an unsupplied one; a numeric bound of zero is not supplied, the   *)
(* hazardous flag is supplied when it is true and when it is false.      *)
CountOf(kind, op) ==
    Cardinality({i \in DOMAIN filters :
                     filters[i].kind = kind /\ filters[i].op = op})
OneFor(supplied, kind, op, value) ==
    IF supplied
    THEN CountOf(kind, op) = 1
         /\ \E i \in DOMAIN filters : filters[i] = Filter(kind, op, value[1])
    ELSE CountOf(kind, op) = 0
NumberSupplied(x) == x # None /\ x # Some(0)
SuppliedCriteria ==
    {c \in {"distance_min", "distance_max", "velocity_min", "velocity_max",
            "diameter_min", "diameter_max"} : NumberSupplied(args[c])}
    \cup {c \in {"date", "start_date", "end_date", "hazardous"} :
              args[c] # None}

C8_OneFilterPerCriterion ==
    call.op = "create_filters" =>
        /\ Len(filters) = Cardinality(SuppliedCriteria)
        /\ OneFor(NumberSupplied(args.distance_min), "Distance", "ge",
                  args.distance_min)
        /\ OneFor(NumberSupplied(args.distance_max), "Distance", "le",
                  args.distance_max)
        /\ OneFor(NumberSupplied(args.velocity_min), "Velocity", "ge",
                  args.velocity_min)
        /\ OneFor(NumberSupplied(args.velocity_max), "Velocity", "le",
                  args.velocity_max)
        /\ OneFor(NumberSupplied(args.diameter_min), "Diameter", "ge",
                  args.diameter_min)
        /\ OneFor(NumberSupplied(args.diameter_max), "Diameter", "le",
                  args.diameter_max)
        /\ OneFor(args.date # None, "Date", "eq", args.date)
        /\ OneFor(args.start_date # None, "Date", "ge", args.start_date)
        /\ OneFor(args.end_date # None, "Date", "le", args.end_date)
        /\ OneFor(args.hazardous # None, "Hazard", "eq", args.hazardous)

C8_Witness ==
    /\ call.op = "create_filters"
    /\ args.distance_min = Some(0) /\ args.diameter_max = Some(1)
    /\ args.hazardous = Some(False)
    /\ filters = <<Filter("Diameter", "le", 1), Filter("Hazard", "eq", False)>>

C10_ReadOnlyAfterConstruction ==
    [][/\ pc = "built" => (pc' = "built" /\ storeVars' = storeVars
                                         /\ inputVars' = inputVars)
       /\ \A a \in ApproachRefs :
              approach_neo[a] # NoneRef =>
                  approach_neo'[a] = approach_neo[a]]_vars

C10_Witness ==
    /\ pc = "built" /\ gen.state = "live" /\ gen.taken = 1
    /\ call.op = "get_neo_by_name" /\ ret # NoneRef
    /\ \A a \in ApproachRefs : approach_neo[a] # NoneRef
    /\ Len(approaches) = 2 /\ Len(neos) = 2
    /\ prev.state = "done"

(* Vocabulary of the approach lists. *)
OwnApproaches(o) ==
    SelectSeq([a \in ApproachRefs |-> a], LAMBDA a : Matches(a, o))
Grouping(d) ==
    IF d \in DOMAIN _approach_des_dict THEN _approach_des_dict[d] ELSE <<>>

(* C11: after construction every object's approaches list is exactly the *)
(* input approaches of that object's designation, in input order, and it *)
(* is the sequence the designation grouping holds for that designation   *)
(* (stated for objects of pairwise distinct designations).               *)
C11_ApproachListsAreOwn ==
    (pc = "built" /\ DistinctDesignations) =>
        \A o \in NeoRefs :
            /\ neo_approaches[o] = OwnApproaches(o)
            /\ neo_approaches[o] = Grouping(neos[o].designation)

(* Vocabulary of the filter-call log. *)
FirstFailing(fs, a) ==
    IF \E i \in DOMAIN fs : ~FilterCall(fs[i], a)
    THEN CHOOSE i \in DOMAIN fs :
             /\ ~FilterCall(fs[i], a)
             /\ \A j \in 1..(i - 1) : FilterCall(fs[j], a)
    ELSE Len(fs)
CallsOn(fs, a) == [i \in 1..FirstFailing(fs, a) |-> <<a, i>>]
RECURSIVE CallsUpTo(_, _)
CallsUpTo(fs, k) ==
    IF k = 0 THEN <<>> ELSE CallsUpTo(fs, k - 1) \o CallsOn(fs, k)

(* C12: the filter calls a query has made are, approach by approach in   *)
(* store order, the filters in the order supplied up to and including    *)
(* the first that returns false: none after it on that approach, and     *)
(* none on a later approach before the calls on an earlier one.          *)
C12_FilterCallsInOrderShortCircuit ==
    Running => gen.log = CallsUpTo(gen.filters, gen.pos)

C12_Witness ==
    /\ Running /\ gen.state = "done" /\ Unlimited(gen)
    /\ Len(gen.filters) = 2 /\ Len(approaches) = 2
    /\ gen.log = <<<<1, 1>>, <<2, 1>>, <<2, 2>>>>

(* Vocabulary of the index. *)
IsPermutation(refs, n) ==
    Len(refs) = n /\ {refs[i] : i \in DOMAIN refs} = 1..n

(* C13: after construction the sorted object array is a permutation of   *)
(* the input objects, the designation array has its length and holds the *)
(* designation of sorted object i at i, in ascending str order (strictly *)
(* ascending when the designations are distinct), and the search bound   *)
(* is that length minus one.                                             *)
C13_IndexWellFormed ==
    pc = "built" =>
        /\ IsPermutation(_neos, Len(neos))
        /\ Len(neo_designations) = Len(_neos)
        /\ \A i \in DOMAIN _neos :
               neo_designations[i] = neos[_neos[i]].designation
        /\ \A i \in 1..(Len(neo_designations) - 1) :
               /\ ~StrLess(neo_designations[i + 1], neo_designations[i])
               /\ DistinctDesignations =>
                      StrLess(neo_designations[i], neo_designations[i + 1])
        /\ neo_designations_len = Len(neo_designations) - 1

C13_Witness ==
    /\ pc = "built" /\ Len(neos) = 2 /\ DistinctDesignations
    /\ neos[1].designation = <<2>> /\ neos[2].designation = <<1, 0>>
    /\ _neos = <<2, 1>> /\ neo_designations = <<<<1, 0>>, <<2>>>>
    /\ neo_designations_len = 1

(* Vocabulary of the diameter filters. *)
CompareOps == {"eq", "le", "ge"}
DiameterValues == {NaN, 0, 1, 2}
UnknownDiameter(a) == neos[approach_neo[a]].diameter = NaN
HasDiameterFilter(fs) == \E i \in DOMAIN fs : fs[i].kind = "Diameter"

(* C14: an approach whose object has unknown diameter is rejected by     *)
(* every DiameterFilter, whatever its operator and reference value, and  *)
(* a query with a diameter filter never yields such an approach.         *)
C14_UnknownDiameterRejected ==
    Running =>
        /\ \A a \in ApproachRefs : UnknownDiameter(a) =>
               \A op \in CompareOps : \A v \in DiameterValues :
                   ~FilterCall(Filter("Diameter", op, v), a)
        /\ HasDiameterFilter(gen.filters) =>
               \A i \in DOMAIN gen.out : ~UnknownDiameter(gen.out[i])

C14_Witness ==
    /\ Running /\ gen.state = "done" /\ Unlimited(gen)
    /\ Len(gen.filters) = 2 /\ gen.filters[1].kind = "Diameter"
    /\ Len(approaches) = 2 /\ UnknownDiameter(1) /\ ~UnknownDiameter(2)
    /\ gen.log = <<<<1, 1>>, <<2, 1>>, <<2, 2>>>>
    /\ gen.out = <<2>>
====
